---- MODULE Spec2Model ----
(***************************************************************************)
(* The expense record store of the expense tracker (src/script.js; the     *)
(* second revision, src/unnamed/part_000, has the same store code), the    *)
(* query that feeds the table, the summary, and the second revision's      *)
(* monthly budget.                                                         *)
(*                                                                         *)
(* Text is a sequence of one-character strings, so that trim, parseFloat   *)
(* and the id's string concatenation are computed, not assumed.  A         *)
(* JavaScript number is a tagged record (Num, NaN, PosInfinity, ...), and  *)
(* the stored JSON text is its parsed tree.                                *)
(***************************************************************************)
EXTENDS Integers, Sequences, FiniteSets, TLC

VARIABLES
    expenses,    \* script.js:18   the in-memory collection
    storage,     \* localStorage[STORAGE_KEY_EXPENSES]
    editingId,   \* elements.expenseId.value (the form's hidden field)
    failStreak,  \* consecutive localStorage.setItem calls that threw
    last,        \* history: the handler that ran last, its inputs and writes
    budgetStorage, \* localStorage[STORAGE_KEY_BUDGET] (second revision)
    controls,    \* the values of searchInput, filterMonth, filterCategory, sortBy
    clock,       \* the browser's time zone and the local year and month of now
    rendered,    \* what the last rendering call put on the page
    confirmCallback \* script.js:197  the action the confirmation modal holds

vars == <<expenses, storage, editingId, failStreak, last,
          budgetStorage, controls, clock, rendered, confirmCallback>>

\* the variables of the page around the record store
pageVars == <<budgetStorage, controls, clock, rendered, confirmCallback>>

(***************************************************************************)
(* Bounds of the model.                                                    *)
(***************************************************************************)
MaxExpenses == 2
MaxFailStreak == 1
\* the longest collection the rendering and loading specifications start from
MaxRecords == 3

(***************************************************************************)
(* JavaScript numbers and the comparisons the handlers make on them.       *)
(***************************************************************************)
Num(n) == [t |-> "num", n |-> n]
NaN == [t |-> "nan", n |-> 0]
PosInfinity == [t |-> "inf", n |-> 0]
NegInfinity == [t |-> "-inf", n |-> 0]
Null == [t |-> "null", n |-> 0]

\* isNaN(v): ToNumber(null) is 0, so isNaN(null) is false
IsNaN(v) == v.t = "nan"

\* v <= 0
LessOrEqualZero(v) ==
    CASE v.t = "num" -> v.n <= 0
      [] v.t = "-inf" -> TRUE
      [] v.t = "null" -> TRUE
      [] OTHER -> FALSE

\* v > 0
GreaterThanZero(v) ==
    CASE v.t = "num" -> v.n > 0
      [] v.t = "inf" -> TRUE
      [] OTHER -> FALSE

(***************************************************************************)
(* Text: String.prototype.trim and parseFloat.  The alphabet of the        *)
(* model's texts has no "." and no exponent, so parseFloat reads an        *)
(* optional sign and then "Infinity" or the longest run of digits.         *)
(***************************************************************************)
Whitespace == {" "}
DigitChars == <<"0", "1", "2", "3", "4", "5", "6", "7", "8", "9">>
IsDigit(c) == \E i \in 1..10 : DigitChars[i] = c
DigitValue(c) == (CHOOSE i \in 1..10 : DigitChars[i] = c) - 1
InfinityText == <<"I", "n", "f", "i", "n", "i", "t", "y">>

RECURSIVE TrimStart(_)
TrimStart(s) ==
    IF s # <<>> /\ Head(s) \in Whitespace THEN TrimStart(Tail(s)) ELSE s

RECURSIVE TrimEnd(_)
TrimEnd(s) ==
    IF s # <<>> /\ s[Len(s)] \in Whitespace
    THEN TrimEnd(SubSeq(s, 1, Len(s) - 1))
    ELSE s

Trim(s) == TrimEnd(TrimStart(s))

StartsWith(s, p) == Len(s) >= Len(p) /\ SubSeq(s, 1, Len(p)) = p

RECURSIVE DigitPrefix(_)
DigitPrefix(s) ==
    IF s # <<>> /\ IsDigit(Head(s))
    THEN <<Head(s)>> \o DigitPrefix(Tail(s))
    ELSE <<>>

RECURSIVE DecimalValue(_)
DecimalValue(ds) ==
    IF ds = <<>>
    THEN 0
    ELSE 10 * DecimalValue(SubSeq(ds, 1, Len(ds) - 1)) + DigitValue(ds[Len(ds)])

ParseFloat(s) ==
    LET t == TrimStart(s)
        signed == t # <<>> /\ Head(t) \in {"-", "+"}
        neg == t # <<>> /\ Head(t) = "-"
        body == IF signed THEN Tail(t) ELSE t
        ds == DigitPrefix(body)
    IN  IF StartsWith(body, InfinityText)
        THEN IF neg THEN NegInfinity ELSE PosInfinity
        ELSE IF ds = <<>>
        THEN NaN
        ELSE Num(IF neg THEN 0 - DecimalValue(ds) ELSE DecimalValue(ds))

(***************************************************************************)
(* generateId: Date.now().toString(36) followed by up to seven base-36     *)
(* digits of Math.random().  Date.now() is the wall clock (it need not     *)
(* advance between two calls) and Math.random() is any value, so both are  *)
(* inputs of the handler.                                                  *)
(***************************************************************************)
Digits36 ==
    <<"0", "1", "2", "3", "4", "5", "6", "7", "8", "9", "a", "b", "c", "d",
      "e", "f", "g", "h", "i", "j", "k", "l", "m", "n", "o", "p", "q", "r",
      "s", "t", "u", "v", "w", "x", "y", "z">>

RECURSIVE ToString36(_)
ToString36(n) ==
    IF n < 36
    THEN <<Digits36[n + 1]>>
    ELSE ToString36(n \div 36) \o <<Digits36[(n % 36) + 1]>>

GenerateId(now, rnd) == ToString36(now) \o rnd

\* the instants Date.now() returns, and the digit strings
\* Math.random().toString(36).substring(2, 9) returns (one string here: two
\* draws may agree whatever the size of the set)
ClockValues == {40, 41}
RandomSuffixes == {<<"k">>}

AllIds == {GenerateId(now, rnd) : now \in ClockValues, rnd \in RandomSuffixes}

(***************************************************************************)
(* What the form can hold when it is submitted.  The fields are read as    *)
(* elements.<field>.value, a string the code puts no restriction on: a     *)
(* valid amount with padded category, "Infinity", a text that is no        *)
(* number, zero, a number with trailing text and blank category and        *)
(* description, an empty date, a date of one space.                        *)
(***************************************************************************)
DateA == <<"2", "0", "2", "4", "-", "0", "1", "-", "0", "5">>

Filling(a, c, d, s) == [amount |-> a, category |-> c, date |-> d, description |-> s]

NoFilling == Filling(<<>>, <<>>, <<>>, <<>>)

FormFillings ==
    { Filling(<<"5">>, <<" ", "A", " ">>, DateA, <<"x">>),
      Filling(<<"I", "n", "f", "i", "n", "i", "t", "y">>, <<"A">>, DateA, <<"x">>),
      Filling(<<"a", "b", "c">>, <<"A">>, DateA, <<"x">>),
      Filling(<<"0">>, <<"A">>, DateA, <<"x">>),
      Filling(<<"7", "x">>, <<" ">>, DateA, <<" ">>),
      Filling(<<"5">>, <<"A">>, <<>>, <<"x">>),
      Filling(<<"5">>, <<"A">>, <<" ">>, <<"x">>) }

(***************************************************************************)
(* Persistence: JSON.stringify, JSON.parse and the two storage functions.  *)
(***************************************************************************)
\* JSON.stringify writes null for a number that is not finite
StringifyNumber(v) == IF v.t \in {"nan", "inf", "-inf"} THEN Null ELSE v

StringifyExpense(e) == [e EXCEPT !.amount = StringifyNumber(e.amount)]

JSONStringify(list) ==
    [k |-> "array", v |-> [i \in DOMAIN list |-> StringifyExpense(list[i])]]

StorageAbsent == [k |-> "absent", v |-> <<>>]
StorageUnparseable == [k |-> "unparseable", v |-> <<>>]
StorageNotArray == [k |-> "notarray", v |-> <<>>]
\* what localStorage.getItem gives when it throws
StorageThrows == [k |-> "throws", v |-> <<>>]

\* a variant of loadExpensesFromStorage that keeps only the elements of the
\* stored array that are objects with an id
LoadExpensesFromStorageRecordsOnly(stored) ==
    IF stored.k = "array"
    THEN SelectSeq(stored.v, LAMBDA e : "id" \in DOMAIN e)
    ELSE <<>>

\* loadExpensesFromStorage: the value assigned to expenses
LoadExpensesFromStorage(stored) ==
    IF stored.k = "absent"
    THEN <<>>
    ELSE IF stored.k \in {"unparseable", "throws"}
    THEN <<>>
    ELSE IF stored.k = "array" THEN stored.v ELSE <<>>

\* loadExpensesFromStorage: how the call ends.  Both the getItem that throws
\* and the JSON.parse that throws are inside the try block.
LoadExpensesOutcome(stored) ==
    IF stored.k \in {"unparseable", "throws"}
    THEN "caught"
    ELSE IF stored.k = "absent" THEN "empty" ELSE "parsed"

\* saveExpensesToStorage: the values handed to localStorage.setItem
SaveExpensesToStorage(list) == <<JSONStringify(list)>>

(***************************************************************************)
(* The handlers, each as the effect of one whole call: the outcome, the    *)
(* collection and the editing id it leaves, and the values it hands to     *)
(* localStorage.setItem, in order.                                         *)
(***************************************************************************)
Effect(outcome, list, writes, id) ==
    [outcome |-> outcome, expenses |-> list, writes |-> writes, editingId |-> id]

\* createExpenseFromForm: <<>> for null, else the one new record.  createdAt
\* is the instant of the call (its ISO rendering is identified with it).
CreateExpenseFromForm(f, now, rnd) ==
    LET amountValue == ParseFloat(f.amount)
        categoryValue == Trim(f.category)
        dateValue == f.date
        descriptionValue == Trim(f.description)
    IN  IF IsNaN(amountValue) \/ LessOrEqualZero(amountValue)
        THEN <<>>
        ELSE IF categoryValue = <<>> \/ dateValue = <<>> \/ descriptionValue = <<>>
        THEN <<>>
        ELSE << [id |-> GenerateId(now, rnd),
                 amount |-> amountValue,
                 category |-> categoryValue,
                 date |-> dateValue,
                 description |-> descriptionValue,
                 createdAt |-> now] >>

\* expenses.findIndex((e) => e.id === id); 0 stands for -1
FindIndex(list, id) ==
    IF \E i \in DOMAIN list : list[i].id = id
    THEN CHOOSE i \in DOMAIN list :
            /\ list[i].id = id
            /\ \A j \in 1..(i - 1) : list[j].id # id
    ELSE 0

\* a variant of the update that builds the record anew from the form and
\* loses the creation stamp
UpdateExpenseFieldsRebuilt(e, f) ==
    [id |-> e.id,
     amount |-> ParseFloat(f.amount),
     category |-> Trim(f.category),
     date |-> f.date,
     description |-> Trim(f.description),
     createdAt |-> 0]

\* the four assignments of the update branch
UpdateExpenseFields(e, f) ==
    [e EXCEPT !.amount = ParseFloat(f.amount),
              !.category = Trim(f.category),
              !.date = f.date,
              !.description = Trim(f.description)]

\* a variant of the update branch that validates the amount before it looks
\* the record up
SubmitUpdateValidatesFirst(list, id, f) ==
    LET index == FindIndex(list, id)
        updatedAmount == ParseFloat(f.amount)
    IN  IF IsNaN(updatedAmount) \/ LessOrEqualZero(updatedAmount)
        THEN Effect("rejected", list, <<>>, id)
        ELSE IF index = 0
        THEN Effect("notfound", list, <<>>, id)
        ELSE LET updated == [list EXCEPT ![index] = UpdateExpenseFields(@, f)]
             IN  Effect("updated", updated, SaveExpensesToStorage(updated), <<>>)

\* a variant of the update branch that does not call resetForm after a
\* completed update
SubmitUpdateKeepsEditingId(list, id, f) ==
    LET index == FindIndex(list, id)
        updatedAmount == ParseFloat(f.amount)
    IN  IF index = 0
        THEN Effect("notfound", list, <<>>, id)
        ELSE IF IsNaN(updatedAmount) \/ LessOrEqualZero(updatedAmount)
        THEN Effect("rejected", list, <<>>, id)
        ELSE LET updated == [list EXCEPT ![index] = UpdateExpenseFields(@, f)]
             IN  Effect("updated", updated, SaveExpensesToStorage(updated), id)

\* the update branch of handleFormSubmit
SubmitUpdate(list, id, f) ==
    LET index == FindIndex(list, id)
        updatedAmount == ParseFloat(f.amount)
    IN  IF index = 0
        THEN Effect("notfound", list, <<>>, id)
        ELSE IF IsNaN(updatedAmount) \/ LessOrEqualZero(updatedAmount)
        THEN Effect("rejected", list, <<>>, id)
        ELSE LET updated == [list EXCEPT ![index] = UpdateExpenseFields(@, f)]
             IN  Effect("updated", updated, SaveExpensesToStorage(updated), <<>>)

\* the create branch of handleFormSubmit
SubmitCreate(list, id, f, now, rnd) ==
    LET newExpense == CreateExpenseFromForm(f, now, rnd)
    IN  IF newExpense = <<>>
        THEN Effect("rejected", list, <<>>, id)
        ELSE LET pushed == list \o newExpense
             IN  Effect("created", pushed, SaveExpensesToStorage(pushed), <<>>)

\* a variant of deleteExpense that removes with splice(findIndex(...), 1):
\* the first match only, and the last record when nothing matches
DeleteExpenseBySplice(list, id) ==
    LET index == FindIndex(list, id)
        at == IF index = 0 THEN Len(list) ELSE index
        kept == SubSeq(list, 1, at - 1) \o SubSeq(list, at + 1, Len(list))
    IN  Effect("deleted", kept, SaveExpensesToStorage(kept), editingId)

\* a variant of deleteExpense that saves before it filters
DeleteExpenseSavesFirst(list, id) ==
    LET kept == SelectSeq(list, LAMBDA e : e.id # id)
    IN  Effect("deleted", kept, SaveExpensesToStorage(list), editingId)

\* deleteExpense
DeleteExpense(list, id) ==
    LET kept == SelectSeq(list, LAMBDA e : e.id # id)
    IN  Effect("deleted", kept, SaveExpensesToStorage(kept), editingId)

\* a variant of clearAllExpenses that empties the storage and forgets the
\* collection in memory
ClearAllExpensesStorageOnly(list) ==
    Effect("cleared", list, SaveExpensesToStorage(<<>>), editingId)

\* clearAllExpenses
ClearAllExpenses(list) ==
    Effect("cleared", <<>>, SaveExpensesToStorage(<<>>), editingId)

(***************************************************************************)
(* The state machine.                                                      *)
(***************************************************************************)
History(op, outcome, id, f, written, stored, n) ==
    [op |-> op, outcome |-> outcome, id |-> id, args |-> f,
     written |-> written, stored |-> stored, lenBefore |-> n]

InitialStorage == {StorageAbsent, StorageUnparseable, StorageNotArray}

\* no budget stored, nothing rendered yet
BudgetAbsent == [k |-> "absent", v |-> <<>>]
NothingRendered == [kind |-> "none"]

\* the values of confirmCallback: null, and the two closures handed to
\* openConfirmModal as onConfirm (the Delete button's closure holds the id
\* of its row's record)
NoCallback == [action |-> "none", id |-> <<>>]
DeleteCallback(id) == [action |-> "delete", id |-> id]
ClearAllCallback == [action |-> "clearAll", id |-> <<>>]

\* the filter controls and the sort selection
Controls(search, month, category, sortBy) ==
    [search |-> search, month |-> month, category |-> category, sortBy |-> sortBy]

\* nothing typed, nothing selected
NoControls == Controls(<<>>, <<>>, <<>>, "none")

\* the time zone ("west": behind UTC) and the local year and month of now
Clock(zone, year, month) == [zone |-> zone, year |-> year, month |-> month]

Init ==
    /\ storage \in InitialStorage
    /\ expenses = LoadExpensesFromStorage(storage)
    /\ editingId = <<>>
    /\ failStreak = 0
    /\ last = History("init", "loaded", <<>>, NoFilling, <<>>, FALSE, 0)
    /\ budgetStorage = BudgetAbsent
    /\ controls = NoControls
    /\ clock = Clock("utc", 2024, 1)
    /\ rendered = NothingRendered
    /\ confirmCallback = NoCallback

\* A handler's effect takes place.  When it calls localStorage.setItem the
\* call stores the value (ok) or throws, which saveExpensesToStorage catches.
\* What the handlers render is the subject of the rendering specifications
\* below; here the page around the store is left as it is.
Apply(op, id, f, eff) ==
    \E ok \in IF eff.writes = <<>>
              THEN {TRUE}
              ELSE IF failStreak < MaxFailStreak THEN BOOLEAN ELSE {TRUE} :
        /\ expenses' = eff.expenses
        /\ editingId' = eff.editingId
        /\ storage' = IF eff.writes # <<>> /\ ok
                      THEN eff.writes[Len(eff.writes)]
                      ELSE storage
        /\ failStreak' = IF eff.writes = <<>>
                         THEN failStreak
                         ELSE IF ok THEN 0 ELSE failStreak + 1
        /\ last' = History(op, eff.outcome, id, f, eff.writes,
                           eff.writes # <<>> /\ ok, Len(expenses))
        /\ UNCHANGED pageVars

\* init(): the page is loaded again
PageLoad ==
    /\ expenses' = LoadExpensesFromStorage(storage)
    /\ editingId' = <<>>
    /\ UNCHANGED <<storage, failStreak, pageVars>>
    /\ last' = History("load", "loaded", <<>>, NoFilling, <<>>, FALSE, Len(expenses))

\* the form's submit event, with the form filled as f
HandleFormSubmit ==
    \E f \in FormFillings :
        IF editingId # <<>>
        THEN Apply("submit", editingId, f, SubmitUpdate(expenses, editingId, f))
        ELSE /\ Len(expenses) < MaxExpenses
             /\ \E now \in ClockValues, rnd \in RandomSuffixes :
                    Apply("submit", editingId, f,
                          SubmitCreate(expenses, editingId, f, now, rnd))

\* the Edit button of a row.  populateFormForEdit also fills the four visible
\* fields; the user may retype them, so HandleFormSubmit draws them anew.
PopulateFormForEdit ==
    \E i \in DOMAIN expenses :
        /\ editingId' = expenses[i].id
        /\ UNCHANGED <<expenses, storage, failStreak, pageVars>>
        /\ last' = History("populate", "filled", expenses[i].id, NoFilling,
                           <<>>, FALSE, Len(expenses))

\* the Reset button
ResetForm ==
    /\ editingId' = <<>>
    /\ UNCHANGED <<expenses, storage, failStreak, pageVars>>
    /\ last' = History("reset", "reset", <<>>, NoFilling, <<>>, FALSE, Len(expenses))

\* deleteExpense(id), for any id generateId can have given
Delete ==
    \E id \in AllIds :
        Apply("delete", id, NoFilling, DeleteExpense(expenses, id))

\* clearAllExpenses()
ClearAll ==
    Apply("clearAll", <<>>, NoFilling, ClearAllExpenses(expenses))

\* the record store's handlers
Next ==
    \/ PageLoad
    \/ HandleFormSubmit
    \/ PopulateFormForEdit
    \/ ResetForm
    \/ Delete
    \/ ClearAll

Spec == Init /\ [][Next]_vars

(***************************************************************************)
(* What the claims speak of, stated apart from the handlers above.         *)
(***************************************************************************)
HasId(list, id) == \E i \in DOMAIN list : list[i].id = id

\* the position of the first record with this id
FirstWithId(list, id) ==
    CHOOSE k \in DOMAIN list :
        list[k].id = id /\ \A j \in DOMAIN list : list[j].id = id => k <= j

\* the records whose id is not id, in their order
RECURSIVE Without(_, _)
Without(list, id) ==
    IF list = <<>>
    THEN <<>>
    ELSE IF Head(list).id = id
    THEN Without(Tail(list), id)
    ELSE <<Head(list)>> \o Without(Tail(list), id)

\* the amount typed is not a number, or is a number <= 0
BadAmount(f) == IsNaN(ParseFloat(f.amount)) \/ LessOrEqualZero(ParseFloat(f.amount))

\* a required text is empty after trimming
BlankText(f) ==
    \/ Trim(f.category) = <<>>
    \/ Trim(f.date) = <<>>
    \/ Trim(f.description) = <<>>

Mutated == {"created", "updated", "deleted", "cleared"}

\* C1: in every reachable state no two records of the collection have the
\* same id.
UniqueIds ==
    \A i, j \in DOMAIN expenses : i # j => expenses[i].id # expenses[j].id

\* C2: in every reachable state every record of the collection has an
\* amount > 0.
PositiveAmounts ==
    \A i \in DOMAIN expenses : GreaterThanZero(expenses[i].amount)

\* C3: a create whose amount is not a number or <= 0, or whose category, date
\* or description is empty after trimming, and an update of an existing id
\* whose amount is not a number or <= 0, is rejected: the collection is the
\* same before and after and nothing is written to storage.
RejectedSubmissionChangesNothing ==
    [][ ( /\ last'.op = "submit"
          /\ \/ editingId = <<>> /\ (BadAmount(last'.args) \/ BlankText(last'.args))
             \/ editingId # <<>> /\ HasId(expenses, editingId) /\ BadAmount(last'.args) )
        => /\ last'.outcome = "rejected"
           /\ expenses' = expenses
           /\ last'.written = <<>>
           /\ storage' = storage ]_vars

\* C4: a create with valid inputs succeeds and grows the collection by exactly
\* one record, appended at the end, which carries the submitted amount,
\* category, date and description (as the form normalises them) and an id
\* distinct from all prior ids; the records held before keep their contents
\* and positions.
CreateAppendsOneFreshRecord ==
    [][ ( /\ last'.op = "submit"
          /\ editingId = <<>>
          /\ ~BadAmount(last'.args)
          /\ ~BlankText(last'.args) )
        => /\ last'.outcome = "created"
           /\ Len(expenses') = Len(expenses) + 1
           /\ SubSeq(expenses', 1, Len(expenses)) = expenses
           /\ LET new == expenses'[Len(expenses')]
              IN  /\ new.amount = ParseFloat(last'.args.amount)
                  /\ new.category = Trim(last'.args.category)
                  /\ new.date = last'.args.date
                  /\ new.description = Trim(last'.args.description)
                  /\ ~HasId(expenses, new.id) ]_vars

\* C5: an update whose id matches no record ends as not found and leaves the
\* collection and the storage as they were, whatever amount was submitted.
UpdateOfMissingIdIsNotFound ==
    [][ ( /\ last'.op = "submit"
          /\ editingId # <<>>
          /\ ~HasId(expenses, editingId) )
        => /\ last'.outcome = "notfound"
           /\ expenses' = expenses
           /\ last'.written = <<>>
           /\ storage' = storage ]_vars

\* C5 witness: a record was loaded into the form and removed before a submit
\* with a valid amount, while another record is held.
MissingIdSubmitted ==
    /\ last.op = "submit"
    /\ last.outcome = "notfound"
    /\ ~BadAmount(last.args)
    /\ expenses # <<>>

\* C6: a successful update of the record with the editing id replaces its
\* amount, category, date and description by the submitted values and leaves
\* its id, its createdAt and its position as they were; every other record
\* and the length of the collection are unchanged.
UpdateReplacesFieldsInPlace ==
    [][ ( /\ last'.op = "submit"
          /\ editingId # <<>>
          /\ HasId(expenses, editingId)
          /\ ~BadAmount(last'.args) )
        => /\ last'.outcome = "updated"
           /\ Len(expenses') = Len(expenses)
           /\ LET k == FirstWithId(expenses, editingId)
              IN  /\ \A i \in DOMAIN expenses : i # k => expenses'[i] = expenses[i]
                  /\ expenses'[k].id = expenses[k].id
                  /\ expenses'[k].createdAt = expenses[k].createdAt
                  /\ expenses'[k].amount = ParseFloat(last'.args.amount)
                  /\ expenses'[k].category = Trim(last'.args.category)
                  /\ expenses'[k].date = last'.args.date
                  /\ expenses'[k].description = Trim(last'.args.description) ]_vars

\* C6 witness: the second of two records with different ids was updated, at
\* an instant other than the one it was created at.
SecondRecordUpdated ==
    /\ last.op = "submit"
    /\ last.outcome = "updated"
    /\ Len(expenses) = 2
    /\ expenses[1].id # last.id
    /\ expenses[2].id = last.id
    /\ expenses[2].amount = ParseFloat(last.args.amount)
    /\ expenses[2].createdAt # expenses[1].createdAt

ClearAllEmpties == last.op = "clearAll" => expenses = <<>>

\* C8 witness: clearAll ran on a collection of two records.
ClearedTwo == last.op = "clearAll" /\ last.lenBefore >= 2

\* C9: a successful create, a successful update, a delete and a clearAll each
\* hand exactly one value to the storage, and that value is the encoding of
\* the whole collection as the mutation left it.
MutationWritesWholeCollectionOnce ==
    last.outcome \in Mutated => last.written = <<JSONStringify(expenses)>>

\* C9 witness: a delete that left a record behind has written.
DeleteHasWritten ==
    /\ last.outcome = "deleted"
    /\ last.lenBefore = 2
    /\ Len(expenses) = 1
    /\ Len(last.written) = 1

\* C10: a write that fails leaves the mutation in memory and the previous
\* value in storage; and whenever the most recent write succeeded, the
\* collection the storage holds equals the collection in memory.
FailedWriteKeepsMutationAndSuccessSyncs ==
    [][ /\ (last'.written # <<>> /\ ~last'.stored)
            => /\ storage' = storage
               /\ last'.outcome \in Mutated
               /\ last'.written = <<JSONStringify(expenses')>>
        /\ (failStreak' = 0 /\ storage'.k = "array")
            => LoadExpensesFromStorage(storage') = expenses' ]_vars

(***************************************************************************)
(* Loading at startup.  The stored value is whatever the key holds: it may *)
(* be absent, no JSON, JSON that is no array, or an array of any JSON      *)
(* values (records the program wrote, or anything else), and the read      *)
(* itself may throw.                                                       *)
(***************************************************************************)
StoredExpense(now, amount) ==
    [id |-> GenerateId(now, <<"k">>), amount |-> amount, category |-> <<"A">>,
     date |-> DateA, description |-> <<"x">>, createdAt |-> now]

StoredElements ==
    { StoredExpense(40, Num(5)), StoredExpense(41, Null), Null }

SeqsUpTo(S, n) == UNION { [1..k -> S] : k \in 0..n }

StoredValues ==
    {StorageAbsent, StorageUnparseable, StorageNotArray}
        \cup { [k |-> "array", v |-> a] : a \in SeqsUpTo(StoredElements, MaxRecords) }

\* the state when the script has been evaluated and init() has not run yet
LoadInit ==
    /\ storage \in StoredValues
    /\ expenses = <<>>
    /\ editingId = <<>>
    /\ failStreak = 0
    /\ last = History("init", "constructed", <<>>, [read |-> TRUE], <<>>, FALSE, 0)
    /\ budgetStorage = BudgetAbsent
    /\ controls = NoControls
    /\ clock = Clock("utc", 2024, 1)
    /\ rendered = NothingRendered
    /\ confirmCallback = NoCallback

\* localStorage.getItem(STORAGE_KEY_EXPENSES): the stored value, or a throw
GetItem(stored, readOk) == IF readOk THEN stored ELSE StorageThrows

\* loadExpensesFromStorage(), as init() calls it
LoadFromStorage ==
    \E readOk \in BOOLEAN :
        LET got == GetItem(storage, readOk)
        IN  /\ expenses' = LoadExpensesFromStorage(got)
            /\ last' = History("load", LoadExpensesOutcome(got), <<>>,
                               [read |-> readOk], <<>>, FALSE, Len(expenses))
            /\ UNCHANGED <<storage, editingId, failStreak, pageVars>>

LoadNext == LoadFromStorage

LoadSpec == LoadInit /\ [][LoadNext]_vars

\* C11: loading ends without an error in every case; when the stored value
\* is absent, unparseable, not an array, or the read throws, the collection
\* is empty afterwards; when it is a stored array that was read, the
\* collection is exactly that array, in the stored order.
LoadNeverFailsAndTakesTheArray ==
    last.op = "load"
        => /\ last.outcome \in {"caught", "empty", "parsed"}
           /\ IF last.args.read /\ storage.k = "array"
              THEN expenses = storage.v
              ELSE expenses = <<>>

\* C11 witness: a stored array of three elements, a record and a value that
\* is no record among them, was read and is the collection.
StoredArrayLoaded ==
    /\ last.op = "load"
    /\ last.args.read
    /\ storage.k = "array"
    /\ Len(storage.v) = 3
    /\ storage.v[1] = Null
    /\ storage.v[2] # storage.v[3]
    /\ expenses = storage.v

(***************************************************************************)
(* Arithmetic on JavaScript numbers, as the sort comparator and the sums   *)
(* use it.  null converts to 0.                                            *)
(***************************************************************************)
\* a string that is no number's text, a function, and undefined
StringValue == [t |-> "str", n |-> 0]
FunctionValue == [t |-> "function", n |-> 0]
Undefined == [t |-> "undefined", n |-> 0]

ToNumber(v) ==
    CASE v.t = "null" -> Num(0)
      [] v.t \in {"str", "function", "undefined"} -> NaN
      [] OTHER -> v

Negate(v) ==
    LET x == ToNumber(v)
    IN  CASE x.t = "num" -> Num(0 - x.n)
          [] x.t = "inf" -> NegInfinity
          [] x.t = "-inf" -> PosInfinity
          [] OTHER -> NaN

\* a + b
Add(a, b) ==
    LET x == ToNumber(a)
        y == ToNumber(b)
    IN  IF x.t = "nan" \/ y.t = "nan"
        THEN NaN
        ELSE IF x.t = "num" /\ y.t = "num"
        THEN Num(x.n + y.n)
        ELSE IF x.t = "num"
        THEN y
        ELSE IF y.t = "num" \/ x.t = y.t THEN x ELSE NaN

\* a - b
Subtract(a, b) == Add(a, Negate(b))

(***************************************************************************)
(* Text: toLowerCase and includes.                                         *)
(***************************************************************************)
UpperChars == <<"A", "B", "C", "D", "E", "F", "G", "H", "I", "J", "K", "L", "M",
                "N", "O", "P", "Q", "R", "S", "T", "U", "V", "W", "X", "Y", "Z">>
LowerChars == <<"a", "b", "c", "d", "e", "f", "g", "h", "i", "j", "k", "l", "m",
                "n", "o", "p", "q", "r", "s", "t", "u", "v", "w", "x", "y", "z">>

ToLowerChar(c) ==
    IF \E i \in 1..26 : UpperChars[i] = c
    THEN LowerChars[CHOOSE i \in 1..26 : UpperChars[i] = c]
    ELSE c

ToLowerCase(s) == [i \in DOMAIN s |-> ToLowerChar(s[i])]

\* s.includes(q)
Includes(s, q) ==
    \E i \in 0..(Len(s) - Len(q)) : SubSeq(s, i + 1, i + Len(q)) = q

(***************************************************************************)
(* Dates.  new Date(text) reads a text of the form YYYY-MM-DD as midnight  *)
(* UTC of that day and gives an invalid date for the other texts of the    *)
(* model (the blank ones).  getFullYear and getMonth read the date in the  *)
(* local time zone: in a zone behind UTC, midnight UTC is the evening of   *)
(* the day before.                                                         *)
(***************************************************************************)
TimeZones == {"utc", "west"}

InvalidDate == [valid |-> FALSE, y |-> 0, m |-> 0, d |-> 0]

IsLeapYear(y) == (y % 4 = 0 /\ y % 100 # 0) \/ y % 400 = 0

DaysInMonth(y, m) ==
    IF m = 2
    THEN IF IsLeapYear(y) THEN 29 ELSE 28
    ELSE IF m \in {4, 6, 9, 11} THEN 30 ELSE 31

\* new Date(text)
NewDate(text) ==
    IF /\ Len(text) = 10
       /\ text[5] = "-"
       /\ text[8] = "-"
       /\ \A i \in {1, 2, 3, 4, 6, 7, 9, 10} : IsDigit(text[i])
    THEN LET y == DecimalValue(SubSeq(text, 1, 4))
             m == DecimalValue(SubSeq(text, 6, 7))
             d == DecimalValue(SubSeq(text, 9, 10))
         IN  IF m \in 1..12 /\ d \in 1..DaysInMonth(y, m)
             THEN [valid |-> TRUE, y |-> y, m |-> m, d |-> d]
             ELSE InvalidDate
    ELSE InvalidDate

\* the local calendar day of a date that is midnight UTC
LocalDay(date, zone) ==
    IF zone # "west"
    THEN date
    ELSE IF date.d > 1
    THEN [date EXCEPT !.d = date.d - 1]
    ELSE IF date.m > 1
    THEN [date EXCEPT !.m = date.m - 1, !.d = DaysInMonth(date.y, date.m - 1)]
    ELSE [date EXCEPT !.y = date.y - 1, !.m = 12, !.d = 31]

\* String(n)
RECURSIVE DecimalText(_)
DecimalText(n) ==
    IF n < 10
    THEN <<DigitChars[n + 1]>>
    ELSE DecimalText(n \div 10) \o <<DigitChars[(n % 10) + 1]>>

\* String(n).padStart(2, "0")
PadStart2(s) == IF Len(s) < 2 THEN <<"0">> \o s ELSE s

\* `${year}-${month}`
MonthKeyText(y, m) == DecimalText(y) \o <<"-">> \o PadStart2(DecimalText(m))

\* getYearMonthKey(text), "" for an invalid date
GetYearMonthKey(dateInput, zone) ==
    LET date == NewDate(dateInput)
    IN  IF ~date.valid
        THEN <<>>
        ELSE LET local == LocalDay(date, zone)
             IN  MonthKeyText(local.y, local.m)

\* the number a date converts to in a subtraction: NaN for an invalid date,
\* else its time, counted in days on a scale that keeps the calendar's order
DateTime(text) ==
    LET date == NewDate(text)
    IN  IF date.valid THEN Num((date.y * 12 + date.m) * 31 + date.d) ELSE NaN

(***************************************************************************)
(* The query pipeline, getProcessedExpenses.                               *)
(***************************************************************************)
SortKeys == {"dateDesc", "dateAsc", "amountDesc", "amountAsc"}

\* the search stage
SearchStage(list, searchText) ==
    LET searchQuery == ToLowerCase(Trim(searchText))
    IN  IF searchQuery # <<>>
        THEN SelectSeq(list, LAMBDA e :
                \/ Includes(ToLowerCase(e.description), searchQuery)
                \/ Includes(ToLowerCase(e.category), searchQuery))
        ELSE list

\* the month stage
MonthStage(list, filterMonth, zone) ==
    IF filterMonth # <<>>
    THEN SelectSeq(list, LAMBDA e : GetYearMonthKey(e.date, zone) = filterMonth)
    ELSE list

\* a variant of the category stage that compares without regard to case
CategoryStageFolded(list, filterCategory) ==
    IF filterCategory # <<>>
    THEN SelectSeq(list, LAMBDA e :
            ToLowerCase(e.category) = ToLowerCase(filterCategory))
    ELSE list

\* the category stage
CategoryStage(list, filterCategory) ==
    IF filterCategory # <<>>
    THEN SelectSeq(list, LAMBDA e : e.category = filterCategory)
    ELSE list

\* the comparator handed to list.sort
SortComparator(sortBy, a, b) ==
    CASE sortBy = "dateDesc" -> Subtract(DateTime(b.date), DateTime(a.date))
      [] sortBy = "dateAsc" -> Subtract(DateTime(a.date), DateTime(b.date))
      [] sortBy = "amountDesc" -> Subtract(b.amount, a.amount)
      [] sortBy = "amountAsc" -> Subtract(a.amount, b.amount)
      [] OTHER -> Num(0)

\* how Array.prototype.sort reads the comparator's result: its sign, and 0
\* for NaN
SortOrder(sortBy, a, b) ==
    LET v == ToNumber(SortComparator(sortBy, a, b))
    IN  CASE v.t = "num" -> (IF v.n < 0 THEN -1 ELSE IF v.n > 0 THEN 1 ELSE 0)
          [] v.t = "inf" -> 1
          [] v.t = "-inf" -> -1
          [] OTHER -> 0

\* the comparator is consistent on the elements of the list: comparing equal
\* and comparing less are transitive
ConsistentComparator(list, sortBy) ==
    \A i, j, k \in DOMAIN list :
        /\ (SortOrder(sortBy, list[i], list[j]) = 0
                /\ SortOrder(sortBy, list[j], list[k]) = 0)
            => SortOrder(sortBy, list[i], list[k]) = 0
        /\ (SortOrder(sortBy, list[i], list[j]) < 0
                /\ SortOrder(sortBy, list[j], list[k]) < 0)
            => SortOrder(sortBy, list[i], list[k]) < 0

RECURSIVE InsertSorted(_, _, _)
InsertSorted(x, sorted, sortBy) ==
    IF sorted = <<>>
    THEN <<x>>
    ELSE IF SortOrder(sortBy, Head(sorted), x) <= 0
    THEN <<Head(sorted)>> \o InsertSorted(x, Tail(sorted), sortBy)
    ELSE <<x>> \o sorted

RECURSIVE StableSort(_, _)
StableSort(list, sortBy) ==
    IF list = <<>>
    THEN <<>>
    ELSE InsertSorted(list[Len(list)],
                      StableSort(SubSeq(list, 1, Len(list) - 1), sortBy), sortBy)

Rearrangements(list) ==
    { [i \in DOMAIN list |-> list[p[i]]] : p \in Permutations(DOMAIN list) }

\* list.sort(comparator): the stable sort when the comparator is consistent;
\* otherwise the order is left to the implementation, and any order of the
\* elements may come out
ArraySort(list, sortBy) ==
    IF ConsistentComparator(list, sortBy)
    THEN {StableSort(list, sortBy)}
    ELSE Rearrangements(list)

\* what a call of getProcessedExpenses leaves: the collection, the values
\* written to storage, and the list returned
QueryEffect(store, result) == [expenses |-> store, writes |-> <<>>, result |-> result]

\* a variant of getProcessedExpenses that starts from the collection itself
\* and not from a copy of it: with no filter set, the sort reorders the
\* collection
GetProcessedExpensesNoCopy(store, c, zone) ==
    LET searched == SearchStage(store, c.search)
        inMonth == MonthStage(searched, c.month, zone)
        inCategory == CategoryStage(inMonth, c.category)
        aliased == ToLowerCase(Trim(c.search)) = <<>> /\ c.month = <<>> /\ c.category = <<>>
    IN  { QueryEffect(IF aliased THEN r ELSE store, r) : r \in ArraySort(inCategory, c.sortBy) }

\* getProcessedExpenses: the possible outcomes of one call
GetProcessedExpenses(store, c, zone) ==
    LET list == store
        searched == SearchStage(list, c.search)
        inMonth == MonthStage(searched, c.month, zone)
        inCategory == CategoryStage(inMonth, c.category)
    IN  { QueryEffect(store, r) : r \in ArraySort(inCategory, c.sortBy) }

(***************************************************************************)
(* Rendering the table over a collection of records the form can have      *)
(* created: equal amounts and equal dates, categories that differ in case, *)
(* a first of the month, and a date of one space (createExpenseFromForm    *)
(* does not trim the date).                                                *)
(***************************************************************************)
Expense(now, amount, category, date, description) ==
    [id |-> GenerateId(now, <<"k">>), amount |-> Num(amount), category |-> category,
     date |-> date, description |-> description, createdAt |-> now]

DateB == <<"2", "0", "2", "4", "-", "0", "2", "-", "0", "1">>

QueryRecords ==
    { Expense(40, 5, <<"F", "o", "o", "d">>, DateA, <<"G", "r", "o", "c", "e", "r", "i", "e", "s">>),
      Expense(41, 7, <<"F", "u", "e", "l">>, DateB, <<"G", "a", "s">>),
      Expense(42, 5, <<"f", "o", "o", "d">>, DateA, <<"G", "u", "m">>),
      Expense(43, 3, <<"F", "o", "o", "d">>, <<" ">>, <<"T", "e", "a">>) }

SearchTexts == { <<>>, <<" ", "G", "R", "O", " ">>, <<"f", "o", "o">> }
MonthFilters == { <<>>, <<"2", "0", "2", "4", "-", "0", "1">> }
CategoryFilters == { <<>>, <<"F", "o", "o", "d">> }
SortChoices == SortKeys \cup {"none"}

QueryControls ==
    { Controls(s, m, c, k) : s \in SearchTexts, m \in MonthFilters,
                             c \in CategoryFilters, k \in SortChoices }

QueryInit ==
    /\ expenses \in SeqsUpTo(QueryRecords, MaxRecords)
    /\ storage = JSONStringify(expenses)
    /\ editingId = <<>>
    /\ failStreak = 0
    /\ last = History("init", "loaded", <<>>, NoFilling, <<>>, FALSE, Len(expenses))
    /\ budgetStorage = BudgetAbsent
    /\ controls \in QueryControls
    /\ clock \in { Clock(zone, 2024, 1) : zone \in TimeZones }
    /\ rendered = NothingRendered
    /\ confirmCallback = NoCallback

\* renderTable(): getProcessedExpenses with the controls as they stand, and
\* the rows it writes
RenderTable ==
    \E eff \in GetProcessedExpenses(expenses, controls, clock.zone) :
        /\ expenses' = eff.expenses
        /\ storage' = IF eff.writes = <<>> THEN storage ELSE eff.writes[Len(eff.writes)]
        /\ rendered' = [kind |-> "table", rows |-> eff.result]
        /\ last' = History("query", "rendered", <<>>, NoFilling,
                           eff.writes, eff.writes # <<>>, Len(expenses))
        /\ UNCHANGED <<editingId, failStreak, budgetStorage, controls, clock, confirmCallback>>

QueryNext == RenderTable

QuerySpec == QueryInit /\ [][QueryNext]_vars

(***************************************************************************)
(* What the query claims speak of, stated apart from the pipeline above.   *)
(***************************************************************************)
\* the record passes every filter that is set
Passes(e, c, zone) ==
    LET wanted == Trim(ToLowerCase(c.search))
    IN  /\ wanted # <<>>
            => \/ Includes(ToLowerCase(e.description), wanted)
               \/ Includes(ToLowerCase(e.category), wanted)
        /\ c.month # <<>> => GetYearMonthKey(e.date, zone) = c.month
        /\ c.category # <<>> => e.category = c.category

\* the records of the list that pass, in their order
RECURSIVE Keep(_, _, _)
Keep(list, c, zone) ==
    IF list = <<>>
    THEN <<>>
    ELSE IF Passes(Head(list), c, zone)
    THEN <<Head(list)>> \o Keep(Tail(list), c, zone)
    ELSE Keep(Tail(list), c, zone)

\* a holds the elements of b, each as often as b does
IsRearrangement(a, b) ==
    /\ Len(a) = Len(b)
    /\ \E p \in Permutations(DOMAIN b) : \A i \in DOMAIN a : a[i] = b[p[i]]

NoFilterSet(c) == Trim(c.search) = <<>> /\ c.month = <<>> /\ c.category = <<>>

\* a comes strictly before b under the sort key
KeyBefore(sortBy, a, b) ==
    CASE sortBy = "amountAsc" -> a.amount.n < b.amount.n
      [] sortBy = "amountDesc" -> a.amount.n > b.amount.n
      [] sortBy = "dateAsc" ->
            NewDate(a.date).valid /\ NewDate(b.date).valid
                /\ DateTime(a.date).n < DateTime(b.date).n
      [] sortBy = "dateDesc" ->
            NewDate(a.date).valid /\ NewDate(b.date).valid
                /\ DateTime(a.date).n > DateTime(b.date).n
      [] OTHER -> FALSE

\* a and b have the same value of the sort key
KeyEqual(sortBy, a, b) ==
    IF sortBy \in {"amountAsc", "amountDesc"}
    THEN a.amount = b.amount
    ELSE NewDate(a.date).valid /\ NewDate(a.date) = NewDate(b.date)

\* C12: a run of the query pipeline, with any filters and any sort key,
\* leaves the collection as it was (the same records in the same order),
\* leaves the storage as it was and hands nothing to the storage.
QueryLeavesStoreUnchanged ==
    [][ last'.op = "query"
        => /\ expenses' = expenses
           /\ storage' = storage
           /\ last'.written = <<>> ]_vars

\* C12 witness: with no filter set, three records were rendered by
\* descending amount in an order that is not the collection's.
SortedViewDiffersFromStore ==
    /\ last.op = "query"
    /\ NoFilterSet(controls)
    /\ controls.sortBy = "amountDesc"
    /\ Len(expenses) = 3
    /\ Len(rendered.rows) = 3
    /\ rendered.rows # expenses

ResultIsStableSort ==
    (last.op = "query" /\ controls.sortBy \in SortKeys)
        => LET rows == rendered.rows
               kept == Keep(expenses, controls, clock.zone)
           IN  /\ \A i, j \in DOMAIN rows :
                    i < j => ~KeyBefore(controls.sortBy, rows[j], rows[i])
               /\ \E p \in Permutations(DOMAIN kept) :
                    /\ \A i \in DOMAIN rows : rows[i] = kept[p[i]]
                    /\ \A i, j \in DOMAIN rows :
                          (i < j /\ KeyEqual(controls.sortBy, rows[i], rows[j]))
                              => p[i] < p[j]

(***************************************************************************)
(* More of JavaScript's values, for the summary: truthiness, the + of +=   *)
(* (which concatenates when an operand is a string or a function), >, and  *)
(* an object used as a map from category to total.  A key the object does  *)
(* not own is looked up in Object.prototype; Object.entries lists the keys *)
(* that are array indices first, in ascending order, and then the other    *)
(* keys in the order they were created.                                    *)
(***************************************************************************)
Truthy(v) ==
    CASE v.t = "num" -> v.n # 0
      [] v.t \in {"inf", "-inf", "str", "function"} -> TRUE
      [] OTHER -> FALSE

\* a + b
JsPlus(a, b) ==
    IF a.t \in {"str", "function"} \/ b.t \in {"str", "function"}
    THEN StringValue
    ELSE Add(a, b)

\* a > b
JsGreater(a, b) ==
    LET x == ToNumber(a)
        y == ToNumber(b)
    IN  CASE x.t = "nan" \/ y.t = "nan" -> FALSE
          [] x.t = "inf" -> y.t # "inf"
          [] x.t = "-inf" -> FALSE
          [] OTHER -> y.t = "-inf" \/ (y.t = "num" /\ x.n > y.n)

\* a < 0
LessThanZero(v) == JsGreater(Num(0), v)

\* the properties of Object.prototype an assignment can shadow
ObjectPrototypeKeys ==
    { <<"c", "o", "n", "s", "t", "r", "u", "c", "t", "o", "r">>, <<"t", "o", "S", "t", "r", "i", "n", "g">>, <<"v", "a", "l", "u", "e", "O", "f">> }

HasOwn(obj, key) == \E i \in DOMAIN obj : obj[i].key = key

OwnIndex(obj, key) == CHOOSE i \in DOMAIN obj : obj[i].key = key

\* obj[key]
GetProperty(obj, key) ==
    IF HasOwn(obj, key)
    THEN obj[OwnIndex(obj, key)].value
    ELSE IF key \in ObjectPrototypeKeys THEN FunctionValue ELSE Undefined

\* obj[key] = v
SetProperty(obj, key, v) ==
    IF HasOwn(obj, key)
    THEN [obj EXCEPT ![OwnIndex(obj, key)].value = v]
    ELSE Append(obj, [key |-> key, value |-> v])

\* the key is the canonical text of an array index (a number below 2^32 - 1;
\* every number of up to nine digits is one, and the keys of this model are
\* no longer)
IsArrayIndex(key) ==
    /\ key # <<>>
    /\ \A i \in DOMAIN key : IsDigit(key[i])
    /\ Len(key) > 1 => key[1] # "0"
    /\ Len(key) <= 9

RECURSIVE InsertByIndex(_, _)
InsertByIndex(entry, sorted) ==
    IF sorted = <<>>
    THEN <<entry>>
    ELSE IF DecimalValue(Head(sorted).key) < DecimalValue(entry.key)
    THEN <<Head(sorted)>> \o InsertByIndex(entry, Tail(sorted))
    ELSE <<entry>> \o sorted

RECURSIVE SortByIndex(_)
SortByIndex(entries) ==
    IF entries = <<>>
    THEN <<>>
    ELSE InsertByIndex(Head(entries), SortByIndex(Tail(entries)))

\* Object.entries(obj)
ObjectEntries(obj) ==
    SortByIndex(SelectSeq(obj, LAMBDA p : IsArrayIndex(p.key)))
        \o SelectSeq(obj, LAMBDA p : ~IsArrayIndex(p.key))

(***************************************************************************)
(* renderSummary: the pass over the collection and the scan for the top    *)
(* category.                                                               *)
(***************************************************************************)
\* getYearMonthKey(now)
CurrentMonthKey(c) == MonthKeyText(c.year, c.month)

\* the text shown when no category has a total above 0
TopCategoryNone == <<"-">>

SummaryStart == [thisMonthTotal |-> Num(0), allTimeTotal |-> Num(0), categoryTotals |-> <<>>]

\* the body of the loop, for one record
SummaryStep(acc, e, currentMonthKey, zone) ==
    LET started == IF ~Truthy(GetProperty(acc.categoryTotals, e.category))
                   THEN SetProperty(acc.categoryTotals, e.category, Num(0))
                   ELSE acc.categoryTotals
    IN  [allTimeTotal |-> JsPlus(acc.allTimeTotal, e.amount),
         thisMonthTotal |-> IF GetYearMonthKey(e.date, zone) = currentMonthKey
                            THEN JsPlus(acc.thisMonthTotal, e.amount)
                            ELSE acc.thisMonthTotal,
         categoryTotals |-> SetProperty(started, e.category,
                                JsPlus(GetProperty(started, e.category), e.amount))]

RECURSIVE SummaryPass(_, _, _, _)
SummaryPass(list, acc, currentMonthKey, zone) ==
    IF list = <<>>
    THEN acc
    ELSE SummaryPass(Tail(list), SummaryStep(acc, Head(list), currentMonthKey, zone),
                     currentMonthKey, zone)

RECURSIVE TopScan(_, _, _)
TopScan(entries, name, amount) ==
    IF entries = <<>>
    THEN [name |-> name, amount |-> amount]
    ELSE IF JsGreater(Head(entries).value, amount)
    THEN TopScan(Tail(entries), Head(entries).key, Head(entries).value)
    ELSE TopScan(Tail(entries), name, amount)

\* renderSummary: the values it computes
RenderSummary(list, currentMonthKey, zone) ==
    LET pass == SummaryPass(list, SummaryStart, currentMonthKey, zone)
        top == TopScan(ObjectEntries(pass.categoryTotals), TopCategoryNone, Num(0))
    IN  [thisMonthTotal |-> pass.thisMonthTotal,
         allTimeTotal |-> pass.allTimeTotal,
         transactionCount |-> Len(list),
         categoryTotals |-> pass.categoryTotals,
         topCategoryName |-> top.name,
         topCategoryAmount |-> top.amount]

(***************************************************************************)
(* The budget: getBudget, saveBudget, getBudgetProgress and the change     *)
(* listener of the budget input.  Quotients are exact: a percentage that   *)
(* is no integer is kept as a fraction in lowest terms.                    *)
(***************************************************************************)
BudgetText(text) == [k |-> "text", v |-> text]

\* what localStorage.getItem(STORAGE_KEY_BUDGET) gives, or a throw
GetBudgetItem(stored, readOk) == IF readOk THEN stored ELSE StorageThrows

\* getBudget
GetBudget(got) ==
    IF got.k = "throws"
    THEN Num(0)
    ELSE IF got.k = "absent" \/ got.v = <<>>
    THEN Num(0)
    ELSE IF Truthy(ParseFloat(got.v)) THEN ParseFloat(got.v) ELSE Num(0)

\* amount.toString()
NumberToString(v) ==
    CASE v.t = "num" -> (IF v.n < 0 THEN <<"-">> \o DecimalText(0 - v.n) ELSE DecimalText(v.n))
      [] v.t = "inf" -> InfinityText
      [] v.t = "-inf" -> <<"-">> \o InfinityText
      [] OTHER -> <<"N", "a", "N">>

\* saveBudget: the values handed to localStorage.setItem
SaveBudget(amount) == <<BudgetText(NumberToString(amount))>>

\* a variant of the listener's coercion that lets a negative value through
CoerceBudgetNotNegativeChecked(text) ==
    IF IsNaN(ParseFloat(text)) THEN Num(0) ELSE ParseFloat(text)

\* the budget the change listener saves for the text typed
CoerceBudget(text) ==
    LET value == ParseFloat(text)
    IN  IF IsNaN(value) \/ LessThanZero(value) THEN Num(0) ELSE value

RECURSIVE GCD(_, _)
GCD(a, b) == IF b = 0 THEN a ELSE GCD(b, a % b)

\* n / d for d > 0
Ratio(n, d) ==
    LET g == GCD(IF n < 0 THEN 0 - n ELSE n, d)
    IN  IF d \div g = 1
        THEN Num(n \div g)
        ELSE [t |-> "ratio", n |-> n \div g, d |-> d \div g]

\* Math.max(0, v)
MathMaxZero(v) ==
    LET x == ToNumber(v)
    IN  CASE x.t = "nan" -> NaN
          [] x.t = "inf" -> PosInfinity
          [] x.t = "-inf" -> Num(0)
          [] OTHER -> (IF x.n > 0 THEN x ELSE Num(0))

\* (spent / budget) * 100 for budget > 0
PercentageOf(spent, budget) ==
    LET x == ToNumber(spent)
        y == ToNumber(budget)
    IN  CASE x.t = "nan" -> NaN
          [] y.t = "inf" -> (IF x.t = "num" THEN Num(0) ELSE NaN)
          [] x.t = "inf" -> PosInfinity
          [] x.t = "-inf" -> NegInfinity
          [] OTHER -> Ratio(x.n * 100, y.n)

RECURSIVE SpentPass(_, _, _, _)
SpentPass(list, spent, currentMonthKey, zone) ==
    IF list = <<>>
    THEN spent
    ELSE SpentPass(Tail(list),
                   IF GetYearMonthKey(Head(list).date, zone) = currentMonthKey
                   THEN JsPlus(spent, Head(list).amount)
                   ELSE spent,
                   currentMonthKey, zone)

\* a variant of getBudgetProgress that sums every record, whatever its month
GetBudgetProgressAllTime(list, budget, currentMonthKey, zone) ==
    LET all == SummaryPass(list, SummaryStart, currentMonthKey, zone).allTimeTotal
    IN  [budget |-> budget,
         spent |-> all,
         remaining |-> MathMaxZero(Subtract(budget, all)),
         percentage |-> IF JsGreater(budget, Num(0)) THEN PercentageOf(all, budget) ELSE Num(0)]

\* a variant of getBudgetProgress without the Math.max
GetBudgetProgressUnclamped(list, budget, currentMonthKey, zone) ==
    LET spent == SpentPass(list, Num(0), currentMonthKey, zone)
    IN  [budget |-> budget,
         spent |-> spent,
         remaining |-> Subtract(budget, spent),
         percentage |-> IF JsGreater(budget, Num(0)) THEN PercentageOf(spent, budget) ELSE Num(0)]

\* getBudgetProgress
GetBudgetProgress(list, budget, currentMonthKey, zone) ==
    LET spent == SpentPass(list, Num(0), currentMonthKey, zone)
    IN  [budget |-> budget,
         spent |-> spent,
         remaining |-> MathMaxZero(Subtract(budget, spent)),
         percentage |-> IF JsGreater(budget, Num(0)) THEN PercentageOf(spent, budget) ELSE Num(0)]

(***************************************************************************)
(* refreshUI (second revision): the table, the summary and the budget      *)
(* panel, computed from the collection, the controls, the clock and the    *)
(* stored budget as they stand.                                            *)
(***************************************************************************)
RefreshUI ==
    \E readOk \in BOOLEAN :
        \E eff \in GetProcessedExpenses(expenses, controls, clock.zone) :
            /\ expenses' = eff.expenses
            /\ storage' = IF eff.writes = <<>> THEN storage ELSE eff.writes[Len(eff.writes)]
            /\ rendered' =
                  [kind |-> "page",
                   rows |-> eff.result,
                   summary |-> RenderSummary(eff.expenses, CurrentMonthKey(clock), clock.zone),
                   progress |-> GetBudgetProgress(eff.expenses,
                                    GetBudget(GetBudgetItem(budgetStorage, readOk)),
                                    CurrentMonthKey(clock), clock.zone)]
            /\ last' = History("refresh", "rendered", <<>>, [read |-> readOk],
                               eff.writes, eff.writes # <<>>, Len(expenses))
            /\ UNCHANGED <<editingId, failStreak, budgetStorage, controls, clock, confirmCallback>>

\* records of the summary specification: the amounts and categories of the
\* specification's first scenario, a category that is the text of a number,
\* a category that is the name of a property of Object.prototype, and a
\* record on the first of the next month
SummaryRecords ==
    { Expense(40, 100, <<"A">>, DateA, <<"x">>),
      Expense(41, 200, <<"A">>, DateA, <<"x">>),
      Expense(42, 300, <<"B">>, DateA, <<"x">>),
      Expense(43, 300, <<"2">>, DateB, <<"x">>),
      Expense(44, 100, <<"c", "o", "n", "s", "t", "r", "u", "c", "t", "o", "r">>, DateA, <<"x">>) }

SummaryControls ==
    { NoControls,
      Controls(<<>>, <<>>, <<"A">>, "none"),
      Controls(<<>>, <<"2", "0", "2", "4", "-", "0", "2">>, <<>>, "amountDesc") }

Clocks == { Clock(zone, 2024, month) : zone \in TimeZones, month \in {1, 2} }

SummaryInit ==
    /\ expenses \in SeqsUpTo(SummaryRecords, MaxRecords)
    /\ storage = JSONStringify(expenses)
    /\ editingId = <<>>
    /\ failStreak = 0
    /\ last = History("init", "loaded", <<>>, [read |-> TRUE], <<>>, FALSE, Len(expenses))
    /\ budgetStorage \in {BudgetAbsent, BudgetText(<<"5", "0", "0">>)}
    /\ controls \in SummaryControls
    /\ clock \in Clocks
    /\ rendered = NothingRendered
    /\ confirmCallback = NoCallback

SummaryNext == RefreshUI

SummarySpec == SummaryInit /\ [][SummaryNext]_vars

(***************************************************************************)
(* The budget input.  Its value is a text the listener parses.             *)
(***************************************************************************)
BudgetInputs == { <<"5", "0", "0">>, <<"0">>, <<"-", "5">>, <<"a", "b", "c">>, InfinityText }

\* the change listener of the budget input: save the coerced budget, then
\* render the budget panel and chart from what getBudget reads back
BudgetInputChange ==
    \E text \in BudgetInputs, ok \in BOOLEAN, readOk \in BOOLEAN :
        LET writes == SaveBudget(CoerceBudget(text))
            kept == IF ok THEN writes[Len(writes)] ELSE budgetStorage
        IN  /\ budgetStorage' = kept
            /\ rendered' =
                  [kind |-> "budget",
                   progress |-> GetBudgetProgress(expenses,
                                    GetBudget(GetBudgetItem(kept, readOk)),
                                    CurrentMonthKey(clock), clock.zone)]
            /\ last' = History("budget", "saved", <<>>, [text |-> text, read |-> readOk],
                               writes, ok, Len(expenses))
            /\ UNCHANGED <<expenses, storage, editingId, failStreak, controls, clock,
                           confirmCallback>>

BudgetRecords ==
    { Expense(40, 300, <<"A">>, DateA, <<"x">>),
      Expense(41, 200, <<"B">>, DateB, <<"x">>) }

BudgetInit ==
    /\ expenses \in SeqsUpTo(BudgetRecords, MaxRecords)
    /\ storage = JSONStringify(expenses)
    /\ editingId = <<>>
    /\ failStreak = 0
    /\ last = History("init", "loaded", <<>>, [read |-> TRUE], <<>>, FALSE, Len(expenses))
    /\ budgetStorage \in {BudgetAbsent, BudgetText(<<"a", "b", "c">>)}
    /\ controls = NoControls
    /\ clock \in Clocks
    /\ rendered = NothingRendered
    /\ confirmCallback = NoCallback

BudgetNext ==
    \/ RefreshUI
    \/ BudgetInputChange

BudgetSpec == BudgetInit /\ [][BudgetNext]_vars

(***************************************************************************)
(* What the summary and budget claims speak of, stated apart from the      *)
(* functions above.                                                        *)
(***************************************************************************)
\* the sum of the amounts of the records of the list
RECURSIVE AmountSum(_)
AmountSum(list) ==
    IF list = <<>> THEN 0 ELSE Head(list).amount.n + AmountSum(Tail(list))

\* the records of the category, and their total
OfCategory(list, c) == SelectSeq(list, LAMBDA e : e.category = c)
CategoryTotal(list, c) == AmountSum(OfCategory(list, c))

\* the records whose month key is that of the current date
OfCurrentMonth(list, c) ==
    SelectSeq(list, LAMBDA e : GetYearMonthKey(e.date, c.zone) = CurrentMonthKey(c))

\* the position at which the category is first seen
FirstSeen(list, c) ==
    CHOOSE i \in DOMAIN list :
        list[i].category = c /\ \A j \in DOMAIN list : list[j].category = c => i <= j

Categories(list) == { list[i].category : i \in DOMAIN list }

GreatestTotal(list) ==
    CHOOSE t \in { CategoryTotal(list, c) : c \in Categories(list) } :
        \A c \in Categories(list) : CategoryTotal(list, c) <= t

\* C15: the summary's allTimeTotal is the sum of all amounts, its
\* transactionCount the number of records, and categoryTotals has exactly
\* one entry for each category that occurs and none for any other, each
\* entry being the sum of the amounts of the records of its category (so
\* the entries add up to allTimeTotal).
SummaryTotalsPartition ==
    last.op = "refresh"
        => LET sum == rendered.summary
           IN  /\ sum.allTimeTotal = Num(AmountSum(expenses))
               /\ sum.transactionCount = Len(expenses)
               /\ \A c \in Categories(expenses) :
                     \E i \in DOMAIN sum.categoryTotals :
                         /\ sum.categoryTotals[i].key = c
                         /\ sum.categoryTotals[i].value = Num(CategoryTotal(expenses, c))
               /\ \A i, j \in DOMAIN sum.categoryTotals :
                     /\ sum.categoryTotals[i].key \in Categories(expenses)
                     /\ sum.categoryTotals[i].key = sum.categoryTotals[j].key => i = j

TopCategoryIsFirstSeenGreatest ==
    last.op = "refresh"
        => LET sum == rendered.summary
           IN  IF expenses = <<>> \/ GreatestTotal(expenses) = 0
               THEN sum.topCategoryName = TopCategoryNone /\ sum.topCategoryAmount = Num(0)
               ELSE LET best == GreatestTotal(expenses)
                        winners == { c \in Categories(expenses) :
                                        CategoryTotal(expenses, c) = best }
                        first == CHOOSE c \in winners :
                                    \A d \in winners :
                                        FirstSeen(expenses, c) <= FirstSeen(expenses, d)
                    IN  /\ sum.topCategoryName = first
                        /\ sum.topCategoryAmount = Num(best)

\* C18: whenever budget progress is computed, remaining is budget - spent
\* when that is above 0 and 0 otherwise, and so never negative; percentage
\* times budget is spent times 100 when the budget is above 0, and
\* percentage is 0 when the budget is 0.
BudgetProgressClampedAndScaled ==
    rendered.kind \in {"page", "budget"}
        => LET p == rendered.progress
           IN  /\ p.spent.t = "num"
               /\ ~LessThanZero(p.remaining)
               /\ p.budget.t = "num"
                    => /\ p.remaining = Num(IF p.budget.n - p.spent.n > 0
                                            THEN p.budget.n - p.spent.n
                                            ELSE 0)
                       /\ p.budget.n > 0
                            => \/ /\ p.percentage.t = "num"
                                  /\ p.percentage.n * p.budget.n = p.spent.n * 100
                               \/ /\ p.percentage.t = "ratio"
                                  /\ p.percentage.n * p.budget.n
                                        = p.spent.n * 100 * p.percentage.d
                       /\ p.budget.n = 0 => p.percentage = Num(0)
               /\ p.budget.t = "inf"
                    => p.remaining = PosInfinity /\ p.percentage = Num(0)

\* C18 witness: with a budget of 500 and 600 spent, remaining is 0 and the
\* percentage 120.
OverBudgetShown ==
    /\ rendered.kind = "budget"
    /\ rendered.progress.budget = Num(500)
    /\ rendered.progress.spent = Num(600)
    /\ rendered.progress.remaining = Num(0)
    /\ rendered.progress.percentage = Num(120)

\* C19: a change of the budget input hands to the storage, at once, the text
\* of 0 when the text typed is no number or a negative one, and the text of
\* the number typed otherwise; the budget read is 0 when the stored value is
\* absent or no number's text or the read fails; and the budget of every
\* budget progress is a number that is not negative.
BudgetCoercedStoredAndNeverNegative ==
    /\ last.op = "budget"
        => LET typed == ParseFloat(last.args.text)
               want == IF typed.t = "nan" \/ (typed.t = "num" /\ typed.n < 0)
                            \/ typed.t = "-inf"
                       THEN Num(0)
                       ELSE typed
           IN  /\ last.written = <<BudgetText(NumberToString(want))>>
               /\ last.stored => budgetStorage = BudgetText(NumberToString(want))
               /\ (last.stored /\ last.args.read) => rendered.progress.budget = want
    /\ rendered.kind \in {"page", "budget"}
        => /\ rendered.progress.budget.t \in {"num", "inf"}
           /\ rendered.progress.budget.t = "num" => rendered.progress.budget.n >= 0
           /\ ( \/ budgetStorage.k = "absent"
                \/ budgetStorage = BudgetText(<<"a", "b", "c">>)
                \/ ~last.args.read )
                => rendered.progress.budget = Num(0)

\* C19 witness: a negative number was typed, the text of 0 was stored and
\* read back as the budget, and something was spent this month.
NegativeBudgetStoredAsZero ==
    /\ last.op = "budget"
    /\ last.args.text = <<"-", "5">>
    /\ last.stored
    /\ last.args.read
    /\ budgetStorage = BudgetText(<<"0">>)
    /\ rendered.progress.budget = Num(0)
    /\ rendered.progress.spent.n > 0

\* C20: in every state the record store reaches from the empty collection,
\* every record has a category, a date and a description that are not
\* empty.
RequiredTextsNonEmpty ==
    \A i \in DOMAIN expenses :
        /\ expenses[i].category # <<>>
        /\ expenses[i].date # <<>>
        /\ expenses[i].description # <<>>

(***************************************************************************)
(* The confirmation modal: the Delete button of a row and the Clear All    *)
(* button hand a closure to openConfirmModal, and the modal's OK button,   *)
(* its Cancel button and a click on its background end the request.  The   *)
(* closures call deleteExpense and clearAllExpenses, whose storage write   *)
(* is caught when it throws, and which end with refreshUI.                 *)
(***************************************************************************)
\* openConfirmModal: the value confirmCallback takes
OpenConfirmModal(onConfirm) == onConfirm

\* closeConfirmModal: the value confirmCallback takes
CloseConfirmModal == NoCallback

\* typeof confirmCallback === "function"
IsFunction(callback) == callback.action # "none"

\* confirmCallback()
CallConfirmCallback(callback, list) ==
    IF callback.action = "delete"
    THEN DeleteExpense(list, callback.id)
    ELSE ClearAllExpenses(list)

\* a variant of the OK listener that leaves the modal as it is after the call
ConfirmOkKeepsCallback(callback, list) ==
    [eff |-> IF IsFunction(callback)
             THEN CallConfirmCallback(callback, list)
             ELSE Effect("nothing", list, <<>>, editingId),
     callback |-> callback]

\* the click listener of the OK button: the effect on the store and the
\* value confirmCallback is left with
ConfirmOk(callback, list) ==
    [eff |-> IF IsFunction(callback)
             THEN CallConfirmCallback(callback, list)
             ELSE Effect("nothing", list, <<>>, editingId),
     callback |-> CloseConfirmModal]

\* what a click on the modal tells the history: the callback it found
Pending(callback) == [pending |-> callback]

\* the Delete button of a row of the table
DeleteButtonClick ==
    \E i \in DOMAIN expenses :
        /\ confirmCallback' = OpenConfirmModal(DeleteCallback(expenses[i].id))
        /\ last' = History("request", "opened", expenses[i].id, Pending(confirmCallback),
                           <<>>, FALSE, Len(expenses))
        /\ UNCHANGED <<expenses, storage, editingId, failStreak,
                       budgetStorage, controls, clock, rendered>>

\* the Clear All button
ClearAllButtonClick ==
    /\ confirmCallback' = OpenConfirmModal(ClearAllCallback)
    /\ last' = History("request", "opened", <<>>, Pending(confirmCallback),
                       <<>>, FALSE, Len(expenses))
    /\ UNCHANGED <<expenses, storage, editingId, failStreak,
                   budgetStorage, controls, clock, rendered>>

\* the modal's Cancel button
ConfirmCancelClick ==
    /\ confirmCallback' = CloseConfirmModal
    /\ last' = History("cancel", "closed", confirmCallback.id, Pending(confirmCallback),
                       <<>>, FALSE, Len(expenses))
    /\ UNCHANGED <<expenses, storage, editingId, failStreak,
                   budgetStorage, controls, clock, rendered>>

\* a click that reaches the modal's listener: on the background, where the
\* event's target is the modal itself, or on something inside the dialog
ConfirmModalClick ==
    \E onBackground \in BOOLEAN :
        /\ confirmCallback' = IF onBackground THEN CloseConfirmModal ELSE confirmCallback
        /\ last' = History(IF onBackground THEN "background" ELSE "inside",
                           IF onBackground THEN "closed" ELSE "nothing",
                           confirmCallback.id, Pending(confirmCallback),
                           <<>>, FALSE, Len(expenses))
        /\ UNCHANGED <<expenses, storage, editingId, failStreak,
                       budgetStorage, controls, clock, rendered>>

\* the modal's OK button
ConfirmOkClick ==
    LET done == ConfirmOk(confirmCallback, expenses)
    IN  \E ok \in IF done.eff.writes = <<>>
                  THEN {TRUE}
                  ELSE IF failStreak < MaxFailStreak THEN BOOLEAN ELSE {TRUE} :
            /\ expenses' = done.eff.expenses
            /\ editingId' = done.eff.editingId
            /\ storage' = IF done.eff.writes # <<>> /\ ok
                          THEN done.eff.writes[Len(done.eff.writes)]
                          ELSE storage
            /\ failStreak' = IF done.eff.writes = <<>>
                             THEN failStreak
                             ELSE IF ok THEN 0 ELSE failStreak + 1
            /\ confirmCallback' = done.callback
            /\ last' = History("ok", done.eff.outcome, confirmCallback.id,
                               Pending(confirmCallback), done.eff.writes,
                               done.eff.writes # <<>> /\ ok, Len(expenses))
            /\ UNCHANGED <<budgetStorage, controls, clock, rendered>>

\* records of the modal specification: three records with ids of their own
ModalRecords ==
    { Expense(40, 5, <<"A">>, DateA, <<"x">>),
      Expense(41, 7, <<"B">>, DateA, <<"y">>),
      Expense(42, 9, <<"A">>, DateB, <<"z">>) }

ModalInit ==
    /\ expenses \in SeqsUpTo(ModalRecords, MaxRecords)
    /\ storage = JSONStringify(expenses)
    /\ editingId = <<>>
    /\ failStreak = 0
    /\ last = History("init", "loaded", <<>>, Pending(NoCallback), <<>>, FALSE, Len(expenses))
    /\ budgetStorage = BudgetAbsent
    /\ controls = NoControls
    /\ clock = Clock("utc", 2024, 1)
    /\ rendered = NothingRendered
    /\ confirmCallback = NoCallback

ModalNext ==
    \/ DeleteButtonClick
    \/ ClearAllButtonClick
    \/ ConfirmCancelClick
    \/ ConfirmModalClick
    \/ ConfirmOkClick

ModalSpec == ModalInit /\ [][ModalNext]_vars

\* C21: in every step of the page with the modal, (1) the collection or the
\* storage changes, or a write is made, only in a click on OK that finds an
\* action pending, and what the step does is what that action does, a delete
\* of the pending id or a clear; (2) a click on OK that finds nothing pending
\* changes nothing; (3) Cancel and a click on the background leave the
\* collection and the storage as they are; (4) after OK, Cancel and a click
\* on the background nothing is pending, so one request runs at most once;
\* (5) a request makes its action the pending one, whatever was pending, and
\* changes nothing else.
StoreChangesOnlyThroughConfirmedModal ==
    [][ /\ (expenses' # expenses \/ storage' # storage \/ last'.written # <<>>)
            => /\ last'.op = "ok"
               /\ IsFunction(confirmCallback)
               /\ last'.args.pending = confirmCallback
               /\ confirmCallback.action = "delete"
                    => expenses' = SelectSeq(expenses,
                                        LAMBDA e : e.id # confirmCallback.id)
               /\ confirmCallback.action = "clearAll" => expenses' = <<>>
        /\ (last'.op = "ok" /\ IsFunction(confirmCallback))
            => /\ last'.written # <<>>
               /\ last'.outcome = IF confirmCallback.action = "delete"
                                  THEN "deleted" ELSE "cleared"
        /\ (last'.op = "ok" /\ ~IsFunction(confirmCallback))
            => /\ UNCHANGED <<expenses, storage>>
               /\ last'.written = <<>>
        /\ last'.op \in {"cancel", "background"}
            => /\ UNCHANGED <<expenses, storage>>
               /\ last'.written = <<>>
        /\ last'.op \in {"ok", "cancel", "background"}
            => confirmCallback' = NoCallback
        /\ last'.op = "request"
            => /\ IsFunction(confirmCallback')
               /\ confirmCallback'.id = last'.id
               /\ confirmCallback'.action = (IF last'.id = <<>> THEN "clearAll" ELSE "delete")
               /\ UNCHANGED <<expenses, storage>>
      ]_vars

\* C21 witness: OK was clicked with a delete pending; the delete ran, took
\* the one record of three that has the id, was written to the storage, and
\* nothing is pending.
LaterDeleteRanNotEarlierClear ==
    /\ last.op = "ok"
    /\ last.outcome = "deleted"
    /\ last.args.pending.action = "delete"
    /\ last.lenBefore = 3
    /\ Len(expenses) = 2
    /\ \A i \in DOMAIN expenses : expenses[i].id # last.id
    /\ last.stored
    /\ storage = JSONStringify(expenses)
    /\ confirmCallback = NoCallback

\* C22: in every step of the record store, (1) a submission found with an
\* empty editing id takes the create branch, and one found with an editing
\* id takes the update branch for that id and adds no record; (2) after a
\* create or an update that completed, and after a reset, the editing id is
\* empty; (3) after a submission that was rejected or found no record the
\* editing id is what it was; (4) an editing id that is set becomes empty
\* only in a completed update or a reset, or when the page is loaded anew,
\* and otherwise changes only when the Edit button puts a record's id in
\* its place: a delete and a clearAll leave it, also when they remove its
\* record.
EditingIdDecidesAndIsClearedOnCompletion ==
    [][ /\ last'.op = "submit"
            => /\ last'.id = editingId
               /\ editingId = <<>>
                    => /\ last'.outcome \in {"created", "rejected"}
                       /\ last'.outcome = "created"
                            => Len(expenses') = Len(expenses) + 1
               /\ editingId # <<>>
                    => /\ last'.outcome \in {"updated", "rejected", "notfound"}
                       /\ Len(expenses') = Len(expenses)
               /\ last'.outcome \in {"created", "updated"} => editingId' = <<>>
               /\ last'.outcome \in {"rejected", "notfound"}
                    => editingId' = editingId /\ expenses' = expenses
        /\ last'.op = "reset" => editingId' = <<>>
        /\ last'.op \in {"delete", "clearAll"} => editingId' = editingId
        /\ (editingId # <<>> /\ editingId' # editingId)
            => \/ last'.op = "submit" /\ last'.outcome = "updated" /\ editingId' = <<>>
               \/ last'.op = "reset" /\ editingId' = <<>>
               \/ last'.op = "load" /\ editingId' = <<>>
               \/ last'.op = "populate" /\ HasId(expenses, editingId')
      ]_vars

\* C22 witness: an update was rejected for its amount, and the form still
\* holds the id of the record, which is in the collection.
RejectedUpdateKeepsEditingId ==
    /\ last.op = "submit"
    /\ last.outcome = "rejected"
    /\ last.id # <<>>
    /\ editingId = last.id
    /\ HasId(expenses, editingId)

====
